---- MODULE Spec2Model ----
(***************************************************************************)
(* Verification model of the Moonbeam voice barista agent:                 *)
(*   - BaristaAgent.save_order (barista_agent.py), the order-persistence   *)
(*     tool, step by step against a small model of the file system;        *)
(*   - my_agent (agent.py) and BaristaAgent.on_enter, the two places a     *)
(*     greeting is requested from the session.                             *)
(*                                                                         *)
(* A Python str is a sequence of atoms; an atom is a TLA+ string standing  *)
(* for one character or for one indivisible run of characters.  The atoms  *)
(* used are chosen so that no atom is a concatenation of others, hence two *)
(* atom sequences are equal exactly when the strings they stand for are.   *)
(***************************************************************************)
EXTENDS Integers, Sequences, FiniteSets, TLC

\* ------------------------------------------------------------------ bounds
MaxCalls == 2          \* save_order invocations in one behaviour
MaxCallsWhileGreeting == 1   \* the same, in behaviours that bootstrap sessions
MaxSecond == 1         \* the wall clock runs over seconds 0 .. MaxSecond
TicksPerSecond == 2    \* utcnow() is finer than the %S field that strftime keeps

Sessions == {1, 2}     \* the sessions (each is one job of the server)
Inbound == {1}         \* the sessions that connect in behaviours that bootstrap

\* ------------------------------------------------------------- strings
SP == " "
US == "_"
SLASH == "/"
QUOTE == "\""
BACKSLASH == "\\"

RECURSIVE Concat(_)
\* ''.join(parts)
Concat(parts) ==
  IF parts = <<>> THEN <<>> ELSE Head(parts) \o Concat(Tail(parts))

RECURSIVE Join(_, _)
\* sep.join(items)
Join(sep, items) ==
  IF items = <<>> THEN <<>>
  ELSE IF Len(items) = 1 THEN items[1]
  ELSE items[1] \o sep \o Join(sep, Tail(items))

\* s.replace(old, new) for a one-character old
Replace(s, old, new) ==
  [i \in 1..Len(s) |-> IF s[i] = old THEN new ELSE s[i]]

\* Python truthiness of a str or a list
Truthy(x) == x # <<>>

\* ---------------------------------------------------------------- inputs
DrinkTypes == {<<"latte">>}
Sizes == {<<"medium">>}
Milks == {<<"oat">>}
Shot == <<"extra", SP, "shot">>
Cream == <<QUOTE, "whip", QUOTE>>
ExtrasChoices == {<<>>, <<Shot, Cream>>}
JaneAnnDoe == <<"Jane", SP, "Ann", SP, "Doe">>
Names == {<<>>, <<"guest">>, JaneAnnDoe, <<"Jane", US, "Ann", SP, "Doe">>,
          <<"a", SLASH, "b">>}

\* OrderState
OrderState(drinkType, size, milk, extras, name) ==
  [drinkType |-> drinkType, size |-> size, milk |-> milk,
   extras |-> extras, name |-> name]

Orders ==
  {OrderState(d, s, m, e, n) :
     d \in DrinkTypes, s \in Sizes, m \in Milks, e \in ExtrasChoices, n \in Names}

\* the orders saved by the interleaved sessions
ConcOrders ==
  {o \in Orders : o.name \in {<<>>, <<"guest">>, JaneAnnDoe}}

\* ------------------------------------------------------- asdict / JSON
\* A JSON value of the order document: a string or an array of strings.
JStr(s) == [kind |-> "string", s |-> s, items |-> <<>>]
JArr(items) == [kind |-> "array", s |-> <<>>, items |-> items]

\* dataclasses.asdict(order): the fields in declaration order
FieldNames == << <<"drinkType">>, <<"size">>, <<"milk">>, <<"extras">>, <<"name">> >>

\* mutant: size and milk written under each other's key
AsDictSwapped(order) ==
  [keys |-> FieldNames,
   vals |-> <<JStr(order.drinkType), JStr(order.milk), JStr(order.size),
              JArr(order.extras), JStr(order.name)>>]

AsDict(order) ==
  [keys |-> FieldNames,
   vals |-> <<JStr(order.drinkType), JStr(order.size), JStr(order.milk),
              JArr(order.extras), JStr(order.name)>>]

NL == "\n"
Whitespace == {SP, NL}

\* json's string encoder: quote and backslash are escaped
EscapeChar(c) ==
  IF c = QUOTE THEN <<BACKSLASH, QUOTE>>
  ELSE IF c = BACKSLASH THEN <<BACKSLASH, BACKSLASH>>
  ELSE <<c>>

EncodeStr(s) ==
  <<QUOTE>> \o Concat([i \in 1..Len(s) |-> EscapeChar(s[i])]) \o <<QUOTE>>

\* the newline and the indentation json writes at nesting depth `level`
\* under indent=2
Indent(level) == <<NL>> \o [i \in 1..(2 * level) |-> SP]

EncodeArr(items, level) ==
  IF items = <<>> THEN <<"[", "]">>
  ELSE <<"[">>
       \o Concat([i \in 1..Len(items) |->
                    (IF i = 1 THEN <<>> ELSE <<",">>)
                    \o Indent(level + 1) \o EncodeStr(items[i])])
       \o Indent(level) \o <<"]">>

EncodeValue(v, level) ==
  IF v.kind = "string" THEN EncodeStr(v.s) ELSE EncodeArr(v.items, level)

\* json.dumps(d, indent=2) of a non-empty dict
JsonDump(d) ==
  <<"{">>
  \o Concat([i \in 1..Len(d.keys) |->
               (IF i = 1 THEN <<>> ELSE <<",">>)
               \o Indent(1) \o EncodeStr(d.keys[i]) \o <<":", SP>>
               \o EncodeValue(d.vals[i], 1)])
  \o Indent(0) \o <<"}">>

\* ------------------------------------------------------------ json.load
Invalid == [ok |-> FALSE, keys |-> <<>>, vals |-> <<>>]
Bad == [ok |-> FALSE, val |-> JStr(<<>>), next |-> 0]

RECURSIVE SkipWs(_, _)
SkipWs(t, i) ==
  IF i <= Len(t) /\ t[i] \in Whitespace THEN SkipWs(t, i + 1) ELSE i

RECURSIVE ReadChars(_, _, _)
\* the characters of a string literal from position i up to its closing quote
ReadChars(t, i, acc) ==
  IF i > Len(t) THEN Bad
  ELSE IF t[i] = QUOTE THEN [ok |-> TRUE, val |-> JStr(acc), next |-> i + 1]
  ELSE IF t[i] = BACKSLASH THEN
    IF i + 1 <= Len(t) /\ t[i + 1] \in {QUOTE, BACKSLASH}
    THEN ReadChars(t, i + 2, Append(acc, t[i + 1]))
    ELSE Bad
  ELSE IF t[i] = NL THEN Bad
  ELSE ReadChars(t, i + 1, Append(acc, t[i]))

ParseString(t, i) ==
  IF i <= Len(t) /\ t[i] = QUOTE THEN ReadChars(t, i + 1, <<>>) ELSE Bad

RECURSIVE ParseItems(_, _, _)
\* the elements of an array, the first of them expected at position i
ParseItems(t, i, acc) ==
  LET e == ParseString(t, i)
      j == SkipWs(t, e.next)
  IN IF ~e.ok \/ j > Len(t) THEN Bad
     ELSE IF t[j] = "]"
       THEN [ok |-> TRUE, val |-> JArr(Append(acc, e.val.s)), next |-> j + 1]
     ELSE IF t[j] = ","
       THEN ParseItems(t, SkipWs(t, j + 1), Append(acc, e.val.s))
     ELSE Bad

ParseArray(t, i) ==
  LET j == SkipWs(t, i + 1)
  IN IF j > Len(t) THEN Bad
     ELSE IF t[j] = "]" THEN [ok |-> TRUE, val |-> JArr(<<>>), next |-> j + 1]
     ELSE ParseItems(t, j, <<>>)

ParseValue(t, i) ==
  IF i > Len(t) THEN Bad
  ELSE IF t[i] = QUOTE THEN ParseString(t, i)
  ELSE IF t[i] = "[" THEN ParseArray(t, i)
  ELSE Bad

RECURSIVE ParseMembers(_, _, _, _)
\* the members of an object, the first key expected at position i
ParseMembers(t, i, keys, vals) ==
  LET k == ParseString(t, i)
      c == SkipWs(t, k.next)
  IN IF ~k.ok \/ c > Len(t) \/ t[c] # ":" THEN Invalid
     ELSE LET v == ParseValue(t, SkipWs(t, c + 1))
              j == SkipWs(t, v.next)
          IN IF ~v.ok \/ j > Len(t) THEN Invalid
             ELSE IF t[j] = "}"
               THEN IF SkipWs(t, j + 1) > Len(t)
                    THEN [ok |-> TRUE, keys |-> Append(keys, k.val.s),
                          vals |-> Append(vals, v.val)]
                    ELSE Invalid
             ELSE IF t[j] = ","
               THEN ParseMembers(t, SkipWs(t, j + 1), Append(keys, k.val.s),
                                 Append(vals, v.val))
             ELSE Invalid

\* json.load of a document whose top level is a non-empty object of strings
\* and string arrays; Invalid for any other text (JSONDecodeError)
JsonLoad(t) ==
  LET i == SkipWs(t, 1)
  IN IF i > Len(t) \/ t[i] # "{" THEN Invalid
     ELSE ParseMembers(t, SkipWs(t, i + 1), <<>>, <<>>)

\* ------------------------------------------------ save_order, pure parts
Digit == <<"0", "1", "2", "3", "4", "5", "6", "7", "8", "9">>
TwoDigits(n) == <<Digit[(n \div 10) + 1], Digit[(n % 10) + 1]>>

\* mutant: the timestamp keeps the sub-second part of the clock
StrftimeTicks(c) ==
  <<"20250101-00">> \o TwoDigits((c \div 60) % 60) \o TwoDigits(c % 60)

\* datetime.utcnow().strftime("%Y%m%d-%H%M%S") at clock tick c: the date and
\* the hour do not change within the modelled horizon; the sub-second part of
\* the clock is dropped
Strftime(c) ==
  LET s == c \div TicksPerSecond
  IN <<"20250101-00">> \o TwoDigits((s \div 60) % 60) \o TwoDigits(s % 60)

\* mutant: spaces are kept
SafeNameKeepsSpaces(name) ==
  IF Truthy(name) THEN name ELSE <<"guest">>

\* mutant: only the first space is replaced
SafeNameFirstSpace(name) ==
  LET n == IF Truthy(name) THEN name ELSE <<"guest">>
  IN [i \in 1..Len(n) |->
        IF n[i] = SP /\ (\A k \in 1..(i - 1) : n[k] # SP) THEN US ELSE n[i]]

\* (name or "guest").replace(" ", "_")
SafeName(name) ==
  Replace(IF Truthy(name) THEN name ELSE <<"guest">>, SP, US)

\* f"{timestamp}_{safe_name}.json"
Leaf(timestamp, safe_name) == timestamp \o <<US>> \o safe_name \o <<".json">>

\* mutant: the file is named by the token alone
FilenameNoTimestamp(timestamp, safe_name) ==
  <<"orders", SLASH>> \o safe_name \o <<".json">>

\* os.path.join("orders", leaf)
Filename(timestamp, safe_name) ==
  <<"orders", SLASH>> \o Leaf(timestamp, safe_name)

\* mutant: the 'and' clause is always there
MessageAlwaysAnd(o) ==
  <<"Saved", SP, "order", SP, "for", SP>> \o o.name \o <<":", SP>>
  \o o.size \o <<SP>> \o o.drinkType \o <<SP, "with", SP>> \o o.milk
  \o <<SP, "milk">> \o <<SP, "and", SP>> \o Join(<<",", SP>>, o.extras) \o <<".">>

\* the f-string of the 'message' field
Message(o) ==
  <<"Saved", SP, "order", SP, "for", SP>> \o o.name \o <<":", SP>>
  \o o.size \o <<SP>> \o o.drinkType \o <<SP, "with", SP>> \o o.milk
  \o <<SP, "milk">>
  \o (IF Truthy(o.extras)
      THEN <<SP, "and", SP>> \o Join(<<",", SP>>, o.extras)
      ELSE <<>>)
  \o <<".">>

\* the dict save_order returns
Result(o, filename) ==
  [status |-> <<"saved">>, filename |-> filename, message |-> Message(o),
   order |-> AsDict(o)]

NoResult ==
  [status |-> <<>>, filename |-> <<>>, message |-> <<>>,
   order |-> [keys |-> <<>>, vals |-> <<>>]]

\* ------------------------------------------------------------------ state
VARIABLES
  clock,      \* wall clock: the latest reading of utcnow(), in ticks
  dir,        \* what the path "orders" is: "absent", "dir" or "file"
  files,      \* the regular files under orders/: path -> [text, writer]
  boot,       \* per session: position of my_agent
  hook,       \* per session: position of BaristaAgent.on_enter
  greetings,  \* per session: who called session.generate_reply, in order
  pc,         \* per session: position of the save_order invocation
  frame,      \* per session: arguments and locals of the invocation, with
              \*   id: its number, at: the clock reading it took,
              \*   f: the path of its open file, buf: the buffer of that file,
              \*   ops: its file-system calls so far and whether each succeeded,
              \*   before: orders/ as os.makedirs found it (kept until line 105)
  result,     \* per session: what the invocation returned
  calls,      \* number of save_order invocations so far
  log         \* the invocations that returned, in order of return

vars == <<clock, dir, files, boot, hook, greetings, pc, frame, result, calls, log>>

MaxClock == (MaxSecond + 1) * TicksPerSecond - 1

NoArgs == << <<>>, <<>>, <<>>, <<>>, <<>> >>

NoFrame ==
  [id |-> 0, args |-> NoArgs, order |-> OrderState(<<>>, <<>>, <<>>, <<>>, <<>>),
   at |-> 0, timestamp |-> <<>>, safe_name |-> <<>>, filename |-> <<>>,
   f |-> <<>>, buf |-> <<>>, ops |-> <<>>,
   before |-> [dir |-> "absent", files |-> [p \in {} |-> 0]]]

\* no order has been saved
InitOrders ==
  /\ clock = 0
  /\ dir \in {"absent", "dir", "file"}
  /\ files = [p \in {} |-> 0]
  /\ pc = [w \in Sessions |-> "idle"]
  /\ frame = [w \in Sessions |-> NoFrame]
  /\ result = [w \in Sessions |-> NoResult]
  /\ calls = 0
  /\ log = <<>>

\* the server is up and no session has connected
Init ==
  /\ InitOrders
  /\ boot = [w \in Sessions |-> "idle"]
  /\ hook = [w \in Sessions |-> "none"]
  /\ greetings = [w \in Sessions |-> <<>>]

\* ------------------------------------------------- agent.py: my_agent
\* the server hands an inbound job to my_agent, which builds the AgentSession
Connect(w) ==
  /\ boot[w] = "idle"
  /\ boot' = [boot EXCEPT ![w] = "start"]
  /\ UNCHANGED <<clock, dir, files, hook, greetings, pc, frame, result, calls, log>>

\* await session.start(room, agent=BaristaAgent(), ...): the framework
\* attaches the agent and schedules its on_enter hook
SessionStart(w) ==
  /\ boot[w] = "start"
  /\ boot' = [boot EXCEPT ![w] = "starting"]
  /\ hook' = [hook EXCEPT ![w] = "pending"]
  /\ UNCHANGED <<clock, dir, files, greetings, pc, frame, result, calls, log>>

\* session.start returns to my_agent
StartReturns(w) ==
  /\ boot[w] = "starting"
  /\ boot' = [boot EXCEPT ![w] = "greet"]
  /\ UNCHANGED <<clock, dir, files, hook, greetings, pc, frame, result, calls, log>>

\* mutant: my_agent greets without starting the session
BootstrapGreetUnstarted(w) ==
  /\ boot[w] \in {"start", "greet"}
  /\ greetings' = [greetings EXCEPT ![w] = Append(@, "bootstrap")]
  /\ boot' = [boot EXCEPT ![w] = "done"]
  /\ UNCHANGED <<clock, dir, files, hook, pc, frame, result, calls, log>>

\* await session.generate_reply(...) in my_agent
BootstrapGreet(w) ==
  /\ boot[w] = "greet"
  /\ greetings' = [greetings EXCEPT ![w] = Append(@, "bootstrap")]
  /\ boot' = [boot EXCEPT ![w] = "done"]
  /\ UNCHANGED <<clock, dir, files, hook, pc, frame, result, calls, log>>

\* BaristaAgent.on_enter: await self.session.generate_reply(...)
OnEnter(w) ==
  /\ hook[w] = "pending"
  /\ greetings' = [greetings EXCEPT ![w] = Append(@, "on_enter")]
  /\ hook' = [hook EXCEPT ![w] = "done"]
  /\ UNCHANGED <<clock, dir, files, boot, pc, frame, result, calls, log>>

\* ------------------------------------- barista_agent.py: save_order
\* the agent of session w is active, so the language model can call its tools
AgentActive(w) == hook[w] # "none"

\* the tool call arrives: lines 94-100 build the OrderState
Invoke(w, limit, drinkType, size, milk, extras, name) ==
  /\ AgentActive(w)
  /\ pc[w] \in {"idle", "returned", "raised"}
  /\ calls < limit
  /\ calls' = calls + 1
  /\ frame' = [frame EXCEPT ![w] =
       [NoFrame EXCEPT !.id = calls + 1,
                       !.args = <<drinkType, size, milk, extras, name>>,
                       !.order = OrderState(drinkType, size, milk, extras, name)]]
  /\ result' = [result EXCEPT ![w] = NoResult]
  /\ pc' = [pc EXCEPT ![w] = "makedirs"]
  /\ UNCHANGED <<clock, dir, files, boot, hook, greetings, log>>

\* mutant: the failed call is made again
PropagateRetry(w) == pc[w]

\* where an OSError takes the invocation of session w: nothing in save_order
\* catches the exception, so it leaves the function
Propagate(w) == "raised"

\* mutant: exist_ok=False
MakedirsNoExistOk(d) ==
  IF d = "absent" THEN {<<FALSE, "dir">>, <<TRUE, "absent">>} ELSE {<<TRUE, d>>}

\* the outcomes of os.makedirs("orders", exist_ok=True) as <<raises, dir'>>:
\* an existing directory is accepted, a missing one is created unless the
\* mkdir fails, and a regular file of that name is an error
MakedirsOutcomes(d) ==
  IF d = "dir" THEN {<<FALSE, "dir">>}
  ELSE IF d = "absent" THEN {<<FALSE, "dir">>, <<TRUE, "absent">>}
  ELSE {<<TRUE, d>>}

\* line 103
Makedirs(w) ==
  /\ pc[w] = "makedirs"
  /\ \E out \in MakedirsOutcomes(dir) :
       /\ dir' = out[2]
       /\ frame' = [frame EXCEPT
            ![w].ops = Append(@, [op |-> "makedirs", ok |-> ~out[1]]),
            ![w].before = [dir |-> dir, files |-> files]]
       /\ pc' = [pc EXCEPT ![w] = IF out[1] THEN Propagate(w) ELSE "stamp"]
  /\ UNCHANGED <<clock, files, boot, hook, greetings, result, calls, log>>

\* the readings utcnow() can give after the reading c: time has passed, by
\* any amount
Utcnow(c) == c..MaxClock

\* lines 105-107
Stamp(w) ==
  /\ pc[w] = "stamp"
  /\ \E now \in Utcnow(clock) :
       LET timestamp == Strftime(now)
           safe_name == SafeName(frame[w].args[5])
       IN /\ clock' = now
          /\ frame' = [frame EXCEPT ![w].at = now,
                                    ![w].timestamp = timestamp,
                                    ![w].safe_name = safe_name,
                                    ![w].filename = Filename(timestamp, safe_name),
                                    ![w].before = NoFrame.before]
  /\ pc' = [pc EXCEPT ![w] = "open"]
  /\ UNCHANGED <<dir, files, boot, hook, greetings, result, calls, log>>

\* the path components of p
RECURSIVE Split(_, _)
Split(p, cur) ==
  IF p = <<>> THEN <<cur>>
  ELSE IF Head(p) = SLASH THEN <<cur>> \o Split(Tail(p), <<>>)
  ELSE Split(Tail(p), Append(cur, Head(p)))

\* open(p, "w") can create or truncate p: orders is a directory and p names
\* an entry of it (orders/ holds regular files only, so a longer path runs
\* through a directory that does not exist)
CanOpen(p) ==
  /\ dir = "dir"
  /\ Len(Split(p, <<>>)) = 2
  /\ Split(p, <<>>)[1] = <<"orders">>
  /\ Split(p, <<>>)[2] # <<>>

\* the file system after `id` replaces p's content by text
WriteFile(p, text, id) ==
  [q \in DOMAIN files \cup {p} |->
     IF q = p THEN [text |-> text, writer |-> id] ELSE files[q]]

\* mutant: every order goes to one file
OpenPathShared(w) == <<"orders", SLASH, "order", ".json">>

\* the path line 109 hands to open()
OpenPath(w) == frame[w].filename

\* line 109: open(filename, "w", encoding="utf-8")
Open(w) ==
  /\ pc[w] = "open"
  /\ \/ /\ CanOpen(OpenPath(w))
        /\ files' = WriteFile(OpenPath(w), <<>>, frame[w].id)
        /\ frame' = [frame EXCEPT ![w].f = OpenPath(w),
                                  ![w].ops = Append(@, [op |-> "open", ok |-> TRUE])]
        /\ pc' = [pc EXCEPT ![w] = "dump"]
     \/ /\ files' = files
        /\ frame' = [frame EXCEPT ![w].ops = Append(@, [op |-> "open", ok |-> FALSE])]
        /\ pc' = [pc EXCEPT ![w] = Propagate(w)]
  /\ UNCHANGED <<clock, dir, boot, hook, greetings, result, calls, log>>

\* line 110: json.dump(asdict(order), f, indent=2) fills the buffer of f
Dump(w) ==
  /\ pc[w] = "dump"
  /\ frame' = [frame EXCEPT ![w].buf = JsonDump(AsDict(frame[w].order))]
  /\ pc' = [pc EXCEPT ![w] = "close"]
  /\ UNCHANGED <<clock, dir, files, boot, hook, greetings, result, calls, log>>

\* a write of buf at offset 0 of a file holding old
Overlay(old, buf) == buf \o SubSeq(old, Len(buf) + 1, Len(old))

\* what a failing flush may have written of buf: nothing, or a leading part
Partial(buf) == {<<>>, SubSeq(buf, 1, Len(buf) \div 2)}

\* leaving the with block (line 110 to 112) flushes the buffer and closes f
Close(w) ==
  /\ pc[w] = "close"
  /\ LET p == frame[w].f
     IN \/ /\ files' = WriteFile(p, Overlay(files[p].text, frame[w].buf), frame[w].id)
           /\ frame' = [frame EXCEPT ![w].ops = Append(@, [op |-> "write", ok |-> TRUE])]
           /\ pc' = [pc EXCEPT ![w] = "return"]
        \/ /\ \E part \in Partial(frame[w].buf) :
                files' = WriteFile(p, Overlay(files[p].text, part), frame[w].id)
           /\ frame' = [frame EXCEPT ![w].ops = Append(@, [op |-> "write", ok |-> FALSE])]
           /\ pc' = [pc EXCEPT ![w] = Propagate(w)]
  /\ UNCHANGED <<clock, dir, boot, hook, greetings, result, calls, log>>

\* lines 112-120
Return(w) ==
  /\ pc[w] = "return"
  /\ result' = [result EXCEPT ![w] = Result(frame[w].order, frame[w].filename)]
  /\ log' = Append(log, [session |-> w, id |-> frame[w].id, at |-> frame[w].at,
                         args |-> frame[w].args, filename |-> frame[w].filename])
  /\ pc' = [pc EXCEPT ![w] = "returned"]
  /\ UNCHANGED <<clock, dir, files, boot, hook, greetings, frame, calls>>

\* ------------------------------------------------------- specifications
\* the tool is called with one of `inputs`
Call(w, limit, inputs) ==
  \E o \in inputs : Invoke(w, limit, o.drinkType, o.size, o.milk, o.extras, o.name)

\* the body of save_order, statement by statement
Body(w) ==
  \/ Makedirs(w)
  \/ Stamp(w)
  \/ Open(w)
  \/ Dump(w)
  \/ Close(w)
  \/ Return(w)

SaveOrder(w, limit, inputs) ==
  \/ Call(w, limit, inputs)
  \/ Body(w)

Session(w) ==
  \/ Connect(w)
  \/ SessionStart(w)
  \/ StartReturns(w)
  \/ BootstrapGreet(w)
  \/ OnEnter(w)

\* The whole program: sessions are bootstrapped and greet, and the agent of a
\* session saves orders once it is active.
Next ==
  \/ \E w \in Inbound : Session(w)
  \/ \E w \in Sessions : SaveOrder(w, MaxCallsWhileGreeting, Orders)

Spec == Init /\ [][Next]_vars

\* Sessions in `started` have been bootstrapped and have greeted, the others
\* have not connected.
InitStarted(started) ==
  /\ InitOrders
  /\ boot = [w \in Sessions |-> IF w \in started THEN "done" ELSE "idle"]
  /\ hook = [w \in Sessions |-> IF w \in started THEN "done" ELSE "none"]
  /\ greetings = [w \in Sessions |->
                    IF w \in started THEN <<"on_enter", "bootstrap">> ELSE <<>>]

NextSave == \E w \in Sessions : SaveOrder(w, MaxCalls, Orders)

\* The single writer: one bootstrapped session, whose save_order invocations
\* run one after the other, each from start to end.
SpecSave == InitStarted({1}) /\ [][NextSave]_vars

\* Two bootstrapped sessions in one working directory, a save_order invocation
\* in each: the two interleave step by step.
\* each session makes one invocation
NextConc ==
  \/ \E w \in Sessions : pc[w] = "idle" /\ Call(w, Cardinality(Sessions), ConcOrders)
  \/ \E w \in Sessions : Body(w)

SpecConc == InitStarted(Sessions) /\ [][NextConc]_vars

\* ================================================================ claims
\* the clock second of the reading c
SecondOf(c) == c \div TicksPerSecond

\* the document a saved order must parse to: the five fields, in this order
ExpectedKeys == << <<"drinkType">>, <<"size">>, <<"milk">>, <<"extras">>, <<"name">> >>
ExpectedVals(a) == <<JStr(a[1]), JStr(a[2]), JStr(a[3]), JArr(a[4]), JStr(a[5])>>

\* the file at path p parses to the order with arguments a
HoldsOrder(p, a) ==
  /\ p \in DOMAIN files
  /\ LET doc == JsonLoad(files[p].text)
     IN /\ doc.ok
        /\ doc.keys = ExpectedKeys
        /\ doc.vals = ExpectedVals(a)

\* C1: when save_order returns, the file named by the result's 'filename'
\* exists and parses to an object with exactly the fields drinkType, size,
\* milk, extras, name, in that order, carrying the five inputs; the result's
\* 'order' is that same record and its 'status' is 'saved'.
C1_SavedFileHoldsInputs ==
  \A w \in Sessions :
    pc[w] = "returned" =>
      /\ HoldsOrder(result[w].filename, frame[w].args)
      /\ result[w].order.keys = ExpectedKeys
      /\ result[w].order.vals = ExpectedVals(frame[w].args)
      /\ result[w].status = <<"saved">>

\* a save of two extras, one of them with quotes in it, has returned after an
\* earlier save
C1_Witness ==
  /\ pc[1] = "returned"
  /\ frame[1].args[4] = <<Shot, Cream>>
  /\ Len(log) = 2

\* the pairs of returned invocations, the earlier one first
LogPairs == {<<i, j>> \in (1..Len(log)) \X (1..Len(log)) : i < j}

\* the earlier invocation's write of p is gone, and while the later one's is
\* the latest, p holds the later one's order
Overwritten(p, earlier, later) ==
  /\ p \in DOMAIN files
  /\ files[p].writer # earlier.id
  /\ files[p].writer = later.id => HoldsOrder(p, later.args)

\* C2: two invocations with identical inputs in the same clock second get
\* the same filename, so the directory holds one file for them, not two, and
\* the second write has replaced the first.
C2_SameSecondSameInputsOverwrite ==
  \A ij \in LogPairs :
    LET a == log[ij[1]]
        b == log[ij[2]]
    IN (a.args = b.args /\ SecondOf(a.at) = SecondOf(b.at)) =>
         /\ a.filename = b.filename
         /\ Cardinality({q \in DOMAIN files : q \in {a.filename, b.filename}}) = 1
         /\ Overwritten(b.filename, a, b)

\* the same order saved at two instants of one second, both saves returned and
\* the file last written by the second
C2_Witness ==
  /\ Len(log) = 2
  /\ log[1].args = log[2].args
  /\ log[1].at # log[2].at
  /\ SecondOf(log[1].at) = SecondOf(log[2].at)
  /\ files[log[2].filename].writer = log[2].id

\* the filename token the specification derives from a name
TokenOf(name) ==
  IF name = <<>> THEN <<"guest">>
  ELSE [i \in 1..Len(name) |-> IF name[i] = " " THEN "_" ELSE name[i]]

\* the order files that the returned invocations wrote
LoggedFiles == {log[i].filename : i \in 1..Len(log)}

\* C3 (as stated): each save produces a new, independently named file: n
\* returned invocations leave n order files, and none writes to a filename an
\* earlier one used.
C3_EachSaveNewFile ==
  /\ Cardinality(LoggedFiles) = Len(log)
  /\ \A ij \in LogPairs : log[ij[1]].filename # log[ij[2]].filename

\* C3 (amended): every returned invocation leaves its file in the directory;
\* an invocation writes to a filename an earlier one used exactly when both
\* fall in the same clock second and derive the same token, so n returned
\* invocations leave as many order files as they have distinct (second, token)
\* pairs.
C3_NewFilePerSecondAndToken ==
  /\ LoggedFiles \subseteq DOMAIN files
  /\ \A ij \in LogPairs :
       LET a == log[ij[1]]
           b == log[ij[2]]
       IN a.filename = b.filename <=>
            (SecondOf(a.at) = SecondOf(b.at) /\ TokenOf(a.args[5]) = TokenOf(b.args[5]))
  /\ Cardinality(LoggedFiles) =
       Cardinality({<<SecondOf(log[i].at), TokenOf(log[i].args[5])>> : i \in 1..Len(log)})

\* two returned saves with one token in different seconds, in two files
C3_Witness ==
  /\ Len(log) = 2
  /\ TokenOf(log[1].args[5]) = TokenOf(log[2].args[5])
  /\ SecondOf(log[1].at) # SecondOf(log[2].at)
  /\ Cardinality(LoggedFiles) = 2

\* C5: the file written is orders/<timestamp>_<token>.json, the token being
\* 'guest' for an empty name and otherwise the name with every space replaced
\* by an underscore and nothing else changed.
C5_FilenameFromTimestampAndToken ==
  \A w \in Sessions :
    pc[w] \in {"dump", "close", "return", "returned"} =>
      LET path == <<"orders", "/">> \o frame[w].timestamp \o <<"_">>
                  \o TokenOf(frame[w].args[5]) \o <<".json">>
      IN /\ frame[w].f = path
         /\ path \in DOMAIN files
         /\ pc[w] = "returned" => result[w].filename = path

\* 'Jane Ann Doe' was saved as ..._Jane_Ann_Doe.json
C5_Witness ==
  /\ pc[1] = "returned"
  /\ frame[1].args[5] = <<"Jane", " ", "Ann", " ", "Doe">>
  /\ result[1].filename =
       <<"orders", "/">> \o frame[1].timestamp
       \o <<"_", "Jane", "_", "Ann", "_", "Doe", ".json">>

\* C10: the token is not one-to-one in the name: two returned invocations of
\* one clock second whose names differ but derive the same token wrote the
\* same file, and the earlier one's order is no longer on disk.
C10_TokenCollisionLosesEarlierOrder ==
  \A ij \in LogPairs :
    LET a == log[ij[1]]
        b == log[ij[2]]
    IN (/\ a.args[5] # b.args[5]
        /\ TokenOf(a.args[5]) = TokenOf(b.args[5])
        /\ SecondOf(a.at) = SecondOf(b.at)) =>
         /\ a.filename = b.filename
         /\ Overwritten(b.filename, a, b)
         /\ files[b.filename].writer = b.id => ~HoldsOrder(a.filename, a.args)

\* a nameless order and one for 'guest' saved in one second: both returned
\* 'saved', and the one file holds the later order only
C10_Witness ==
  /\ Len(log) = 2
  /\ {log[1].args[5], log[2].args[5]} = {<<>>, <<"guest">>}
  /\ SecondOf(log[1].at) = SecondOf(log[2].at)
  /\ pc[1] = "returned" /\ result[1].status = <<"saved">>
  /\ HoldsOrder(log[2].filename, log[2].args)
  /\ Cardinality(DOMAIN files) = 1

RECURSIVE CommaList(_)
\* the items in order, ', ' between each two of them
CommaList(items) ==
  IF Len(items) <= 1 THEN Concat(items)
  ELSE CommaList(SubSeq(items, 1, Len(items) - 1)) \o <<",", " ">> \o items[Len(items)]

\* C6: the message is 'Saved order for <name>: <size> <drinkType> with <milk>
\* milk', then ' and ' and the extras joined by ', ' if and only if there are
\* extras, then '.'; with no extras it has no 'and' clause.
C6_MessageListsExtrasIffAny ==
  \A w \in Sessions :
    pc[w] = "returned" =>
      LET a == frame[w].args
          msg == result[w].message
          head == <<"Saved", " ", "order", " ", "for", " ">> \o a[5] \o <<":", " ">>
                  \o a[2] \o <<" ">> \o a[1] \o <<" ", "with", " ">> \o a[3]
                  \o <<" ", "milk">>
          clause == SubSeq(msg, Len(head) + 1, Len(msg) - 1)
      IN /\ Len(msg) > Len(head)
         /\ SubSeq(msg, 1, Len(head)) = head
         /\ msg[Len(msg)] = "."
         /\ (a[4] = <<>>) <=> (clause = <<>>)
         /\ a[4] # <<>> => clause = <<" ", "and", " ">> \o CommaList(a[4])
         /\ a[4] = <<>> => \A i \in 1..Len(msg) : msg[i] # "and"

\* a save with two extras and a save with none have returned their messages
C6_Witness ==
  /\ Len(log) = 2
  /\ log[1].args[4] = <<>>
  /\ pc[1] = "returned"
  /\ frame[1].args[4] = <<Shot, Cream>>
  /\ result[1].message[Len(result[1].message)] = "."

\* C4: a file-system failure in save_order (creating the directory, opening
\* the file, writing it) ends the invocation with an error: the failed call is
\* its last one (no retry, no other path tried), it returns no result with
\* status 'saved', and every file it touched is the one it first named.
C4_FailurePropagates ==
  \A w \in Sessions :
    LET ops == frame[w].ops
    IN /\ \A i \in 1..Len(ops) :
            ~ops[i].ok =>
              /\ i = Len(ops)
              /\ pc[w] = "raised"
              /\ result[w] = NoResult
              /\ \A k \in 1..Len(log) : log[k].id # frame[w].id
       /\ \A i, j \in 1..Len(ops) : ops[i].op = ops[j].op => i = j
       /\ \A p \in DOMAIN files :
            files[p].writer = frame[w].id => p = frame[w].filename
       /\ pc[w] = "raised" => Len(ops) > 0 /\ ~ops[Len(ops)].ok

\* a save failed in its write after an earlier save had succeeded
C4_Witness ==
  /\ pc[1] = "raised"
  /\ Len(log) = 1
  /\ frame[1].ops = <<[op |-> "makedirs", ok |-> TRUE], [op |-> "open", ok |-> TRUE],
                      [op |-> "write", ok |-> FALSE]>>

\* C9: creating the directory is idempotent: os.makedirs creates orders/ when
\* it is absent, and when it exists the call does not fail and leaves the
\* directory and the files in it as they were; the save can succeed either way.
C9_MakedirsIdempotent ==
  \A w \in Sessions :
    /\ pc[w] = "stamp" =>
         /\ dir = "dir"
         /\ frame[w].before.dir \in {"absent", "dir"}
         /\ files = frame[w].before.files
    /\ (frame[w].ops # <<>> /\ frame[w].before.dir = "dir") =>
         /\ frame[w].ops[1] = [op |-> "makedirs", ok |-> TRUE]
         /\ pc[w] = "stamp"

\* os.makedirs has just returned in a save that found orders/ with a file in it
C9_Witness ==
  /\ pc[1] = "stamp"
  /\ frame[1].before.dir = "dir"
  /\ DOMAIN frame[1].before.files # {}
  /\ Len(log) = 1

\* C7: each session gets exactly two greeting requests: one from my_agent,
\* only after session.start has returned, and one from on_enter, once the
\* agent has entered the session; a session that was not started gets none.
C7_TwoGreetingsPerStartedSession ==
  \A w \in Sessions :
    LET from(src) == {i \in 1..Len(greetings[w]) : greetings[w][i] = src}
    IN /\ Len(greetings[w]) <= 2
       /\ Cardinality(from("bootstrap")) = (IF boot[w] = "done" THEN 1 ELSE 0)
       /\ Cardinality(from("on_enter")) = (IF hook[w] = "done" THEN 1 ELSE 0)
       /\ hook[w] = "none" <=> boot[w] \in {"idle", "start"}
       /\ boot[w] \in {"idle", "start"} => greetings[w] = <<>>
       /\ (boot[w] = "done" /\ hook[w] = "done") =>
            {greetings[w][i] : i \in 1..Len(greetings[w])} = {"bootstrap", "on_enter"}

\* both greetings of session 1 were requested, the bootstrap's first
C7_Witness ==
  /\ greetings[1] = <<"bootstrap", "on_enter">>
  /\ boot[1] = "done"
  /\ hook[1] = "done"

\* C8: two interleaved invocations that name distinct files need no lock:
\* once both have returned, each file exists and holds the order of its own
\* invocation.
C8_DistinctFilesIndependent ==
  \A v, w \in Sessions :
    (/\ v # w
     /\ pc[v] = "returned" /\ pc[w] = "returned"
     /\ result[v].filename # result[w].filename) =>
       /\ HoldsOrder(result[v].filename, frame[v].args)
       /\ files[result[v].filename].writer = frame[v].id

\* session 2 was called after session 1 and returned before it, and the two
\* wrote different files
C8_Witness ==
  /\ pc[1] = "returned" /\ pc[2] = "returned"
  /\ frame[1].id = 1
  /\ log[1].session = 2
  /\ result[1].filename # result[2].filename
  /\ Len(files[result[1].filename].text) # Len(files[result[2].filename].text)

====
